---- MODULE Spec2Model ----
(***************************************************************************)
(* A model of the einops-style rearrange of src/funcs.py and of the        *)
(* pattern parser of src/parser.py.                                        *)
(*                                                                         *)
(* A Python str is a sequence of one-character strings, a list a sequence, *)
(* a dict a function, a set a set.  An axis name is therefore a sequence   *)
(* of characters.  An ndarray is a record of its shape and of its elements *)
(* in row-major order.                                                     *)
(***************************************************************************)
EXTENDS Integers, Sequences, FiniteSets, TLC

VARIABLES
    tensor,         \* the array the current call was given
    pattern,        \* the pattern string the current call was given
    named_sizes,    \* the **named_sizes of the current call
    pc,             \* the statement of rearrange() the call has reached
    halves,         \* source, target after pattern.split('->')
    source_parsed,  \* ParsedExpression(source.strip())
    target_parsed,  \* ParsedExpression(target.strip())
    shape_dict,     \* the result of _get_shape_dict
    plan,           \* the result of _compute_output_shape
    outcome,        \* what the call returned or raised
    original        \* the array of the first call, kept by a caller that chains two calls

vars == <<tensor, pattern, named_sizes, pc, halves, source_parsed, target_parsed,
          shape_dict, plan, outcome, original>>

-----------------------------------------------------------------------------
(* Characters and str methods *)

Letters == {"a", "b", "c", "d", "e", "i", "l", "p", "s"}

Digits == {"1", "2"}

isalnum(c) == c \in Letters \cup Digits

isdigit(c) == c \in Digits

isspace(c) == c = " "

RECURSIVE Cat(_)
Cat(ss) == IF ss = <<>> THEN <<>> ELSE Head(ss) \o Cat(Tail(ss))

StartsWith(s, sub) == Len(s) >= Len(sub) /\ SubSeq(s, 1, Len(sub)) = sub

Drop(s, n) == SubSeq(s, n + 1, Len(s))

\* "sub in s"
Contains(s, sub) == \E i \in 1..(Len(s) - Len(sub) + 1) : SubSeq(s, i, i + Len(sub) - 1) = sub

\* str.count(s, sub): the non-overlapping occurrences, scanning from the left
RECURSIVE str_count(_, _)
str_count(s, sub) ==
    IF Len(s) < Len(sub) THEN 0
    ELSE IF StartsWith(s, sub) THEN 1 + str_count(Drop(s, Len(sub)), sub)
    ELSE str_count(Tail(s), sub)

\* s.replace(old, new)
RECURSIVE str_replace(_, _, _)
str_replace(s, old, new) ==
    IF Len(s) < Len(old) THEN s
    ELSE IF StartsWith(s, old) THEN new \o str_replace(Drop(s, Len(old)), old, new)
    ELSE <<Head(s)>> \o str_replace(Tail(s), old, new)

\* s.split(sep): the list of the parts between the occurrences of sep
RECURSIVE str_split_from(_, _, _)
str_split_from(s, sep, part) ==
    IF Len(s) < Len(sep) THEN <<part \o s>>
    ELSE IF StartsWith(s, sep) THEN <<part>> \o str_split_from(Drop(s, Len(sep)), sep, <<>>)
    ELSE str_split_from(Tail(s), sep, Append(part, Head(s)))

str_split(s, sep) == str_split_from(s, sep, <<>>)

\* s.strip()
RECURSIVE lstrip(_)
lstrip(s) == IF s # <<>> /\ isspace(Head(s)) THEN lstrip(Tail(s)) ELSE s

RECURSIVE rstrip(_)
rstrip(s) == IF s # <<>> /\ isspace(s[Len(s)]) THEN rstrip(SubSeq(s, 1, Len(s) - 1)) ELSE s

str_strip(s) == rstrip(lstrip(s))

ARROW == <<"-", ">">>

DOTS == <<".", ".", ".">>

ELLIPSIS_TOKEN == <<"_", "e", "l", "l", "i", "p", "s", "i", "s", "_">>

-----------------------------------------------------------------------------
(* ParsedExpression, src/parser.py *)

\* An element of composition: a list of axis names, or the str "_ellipsis_".
ListItem(axes) == [list |-> TRUE, axes |-> axes]

EllipsisItem == [list |-> FALSE, axes |-> <<>>]

ParseError(msg) ==
    [ok |-> FALSE, msg |-> msg, has_ellipsis |-> FALSE, identifiers |-> {},
     composition |-> <<>>, actual_dim_count |-> 0]

\* The tokenizer loop of __init__: [ok, msg, tokens].
RECURSIVE Tokenize(_, _, _)
Tokenize(expression, tokens, current_token) ==
    IF expression = <<>>
    THEN [ok |-> TRUE, msg |-> "",
          tokens |-> IF current_token # <<>> THEN Append(tokens, current_token) ELSE tokens]
    ELSE LET char == Head(expression) IN
         IF ~(isalnum(char) \/ char \in {"(", ")", " ", "_", "."} \/ isspace(char))
         THEN [ok |-> FALSE, msg |-> "Invalid character in pattern", tokens |-> <<>>]
         ELSE IF char \in {"(", ")", " "}
         THEN LET flushed == IF current_token # <<>> THEN Append(tokens, current_token)
                             ELSE tokens
              IN Tokenize(Tail(expression),
                          IF char # " " THEN Append(flushed, <<char>>) ELSE flushed,
                          <<>>)
         ELSE Tokenize(Tail(expression), tokens, Append(current_token, char))

\* The checks add_axis_name makes of a name that is not the placeholder: "" when it passes.
AxisNameError(name) ==
    IF name = <<>> THEN "Empty axis name not allowed"
    ELSE IF isdigit(name[1]) THEN "Axis name cannot start with a number"
    ELSE IF ~(\A i \in 1..Len(name) : isalnum(name[i]) \/ name[i] = "_")
    THEN "Invalid axis name"
    ELSE ""

\* What the token loop adds to actual_dim_count after add_axis_name(token) returned.
AxisTokenDimCount(token, bracket_open) == IF ~bracket_open THEN 1 ELSE 0

\* The token loop of __init__, with add_axis_name inlined. st is the object under
\* construction together with bracket_group (open, group).
RECURSIVE ProcessTokens(_, _)
ProcessTokens(tokens, st) ==
    IF tokens = <<>>
    THEN IF st.open THEN ParseError("Unclosed parenthesis")
         ELSE [ok |-> TRUE, msg |-> "", has_ellipsis |-> st.has_ellipsis,
               identifiers |-> st.identifiers, composition |-> st.composition,
               actual_dim_count |-> st.actual_dim_count]
    ELSE LET token == Head(tokens) IN
         IF token = <<"(">>
         THEN IF st.open THEN ParseError("Nested parentheses not allowed")
              ELSE ProcessTokens(Tail(tokens), [st EXCEPT !.open = TRUE, !.group = <<>>])
         ELSE IF token = <<")">>
         THEN IF ~st.open THEN ParseError("Unmatched closing parenthesis")
              ELSE IF st.group = <<>> THEN ParseError("Empty parentheses not allowed")
              ELSE ProcessTokens(Tail(tokens),
                       [st EXCEPT !.composition = Append(@, ListItem(st.group)),
                                  !.actual_dim_count = @ + 1,
                                  !.open = FALSE, !.group = <<>>])
         ELSE IF token = ELLIPSIS_TOKEN
         THEN IF st.open THEN ParseError("Ellipsis inside parenthesis not allowed")
              ELSE ProcessTokens(Tail(tokens),
                       [st EXCEPT !.composition = Append(@, EllipsisItem),
                                  !.actual_dim_count = @ + AxisTokenDimCount(token, st.open)])
         ELSE IF AxisNameError(token) # "" THEN ParseError(AxisNameError(token))
         ELSE IF st.open
         THEN ProcessTokens(Tail(tokens),
                  [st EXCEPT !.group = Append(@, token),
                             !.identifiers = @ \cup {token},
                             !.actual_dim_count = @ + AxisTokenDimCount(token, st.open)])
         ELSE ProcessTokens(Tail(tokens),
                  [st EXCEPT !.composition = Append(@, ListItem(<<token>>)),
                             !.identifiers = @ \cup {token},
                             !.actual_dim_count = @ + AxisTokenDimCount(token, st.open)])

\* ParsedExpression(expression): the constructed object, or the EinopsError raised.
ParsedExpression(expression) ==
    IF expression = <<>> \/ (\A i \in 1..Len(expression) : isspace(expression[i]))
    THEN ParseError("Expression cannot be empty")
    ELSE IF Contains(expression, DOTS) /\ str_count(expression, DOTS) > 1
    THEN ParseError("Multiple ellipsis not allowed in pattern")
    ELSE LET has == Contains(expression, DOTS)
             replaced == IF has THEN str_replace(expression, DOTS, ELLIPSIS_TOKEN)
                         ELSE expression
             tk == Tokenize(replaced, <<>>, <<>>)
         IN IF ~tk.ok THEN ParseError(tk.msg)
            ELSE ProcessTokens(tk.tokens,
                     [has_ellipsis |-> has, identifiers |-> {}, composition |-> <<>>,
                      actual_dim_count |-> 0, open |-> FALSE, group |-> <<>>])

-----------------------------------------------------------------------------
(* The ndarray collaborator: shape, reshape, transpose; row-major order *)

RECURSIVE prod(_)
prod(sizes) == IF sizes = <<>> THEN 1 ELSE Head(sizes) * prod(Tail(sizes))

\* np.arange(n).reshape(shape): the element at flat position k is k
arange(shape) == [shape |-> shape, data |-> [k \in 1..prod(shape) |-> k - 1]]

NoArray == [shape |-> <<>>, data |-> <<>>]

\* The flat row-major position of a multi-index (0-based, as idx[1..n]) in shape.
RECURSIVE ravel(_, _)
ravel(idx, shape) ==
    IF shape = <<>> THEN 0
    ELSE LET n == Len(shape)
         IN ravel(SubSeq(idx, 1, n - 1), SubSeq(shape, 1, n - 1)) * shape[n] + idx[n]

\* The multi-index of flat position k in shape.
RECURSIVE unravel(_, _)
unravel(k, shape) ==
    IF shape = <<>> THEN <<>>
    ELSE LET n == Len(shape)
         IN Append(unravel(k \div shape[n], SubSeq(shape, 1, n - 1)), k % shape[n])

\* ndarray.reshape(new_shape) raises ValueError unless the sizes agree
reshape_ok(arr, new_shape) == prod(new_shape) = Len(arr.data)

reshape(arr, new_shape) == [shape |-> new_shape, data |-> arr.data]

\* ndarray.transpose(axes) raises ValueError unless axes is a permutation of range(ndim)
transpose_ok(arr, axes) ==
    /\ Len(axes) = Len(arr.shape)
    /\ \A i \in 1..Len(axes) : axes[i] \in 0..(Len(arr.shape) - 1)
    /\ \A i, j \in 1..Len(axes) : i # j => axes[i] # axes[j]

\* Axis d of the result is axis axes[d] of arr; the elements in the result's row-major order.
transpose(arr, axes) ==
    LET n == Len(axes)
        new_shape == [d \in 1..n |-> arr.shape[axes[d] + 1]]
        src(j) == [a \in 1..n |-> j[CHOOSE d \in 1..n : axes[d] = a - 1]]
    IN [shape |-> new_shape,
        data |-> [k \in 1..Len(arr.data) |->
                     arr.data[ravel(src(unravel(k - 1, new_shape)), arr.shape) + 1]]]

-----------------------------------------------------------------------------
(* _get_shape_dict, src/funcs.py *)

EmptyDict == [n \in {} |-> 0]

Ok(v) == [ok |-> TRUE, exc |-> "", msg |-> "", value |-> v]

Raise(exc, msg) == [ok |-> FALSE, exc |-> exc, msg |-> msg, value |-> EmptyDict]

\* composition.index("_ellipsis_"): the first place (1-based) an item equal to it holds
ellipsis_index(composition) ==
    CHOOSE i \in 1..Len(composition) :
        /\ ~composition[i].list
        /\ \A j \in 1..(i - 1) : composition[j].list

\* sum(1 for x in composition[composition.index(item)+1:] if isinstance(x, list))
remaining_dims(composition) ==
    Cardinality({j \in (ellipsis_index(composition) + 1)..Len(composition) :
                    composition[j].list})

\* inferred_size with the operands confused: the unknown axis gets the known product.
inferred_size_confused(total_size, known_product) == known_product

\* The size the one unknown axis of a group is bound to.
inferred_size(total_size, known_product) == total_size \div known_product

\* resolve_group without the divisibility check: the quotient is floored silently.
resolve_group_unchecked(item, total_size, sd) ==
    LET unknown == SelectSeq(item.axes, LAMBDA dim : dim \notin DOMAIN sd)
        known == SelectSeq(item.axes, LAMBDA dim : dim \in DOMAIN sd)
        known_product == prod([i \in 1..Len(known) |-> sd[known[i]]])
    IN IF unknown = <<>>
       THEN IF known_product # total_size
            THEN Raise("EinopsError", "Shape mismatch")
            ELSE Ok(sd)
       ELSE IF Len(unknown) = 1
       THEN Ok(sd @@ (unknown[1] :> total_size \div known_product))
       ELSE Raise("EinopsError", "Cannot infer sizes for multiple unknown dimensions")

\* One multi-axis group against total_size: the dict after it, or the error.
resolve_group(item, total_size, sd) ==
    LET unknown_dims == SelectSeq(item.axes, LAMBDA dim : dim \notin DOMAIN sd)
        known == SelectSeq(item.axes, LAMBDA dim : dim \in DOMAIN sd)
        known_product == prod([i \in 1..Len(known) |-> sd[known[i]]])
    IN IF unknown_dims = <<>>
       THEN IF known_product # total_size
            THEN Raise("EinopsError", "Shape mismatch")
            ELSE Ok(sd)
       ELSE IF Len(unknown_dims) = 1
       THEN IF total_size % known_product # 0
            THEN Raise("EinopsError", "Cannot divide dimension size")
            ELSE Ok(sd @@ (unknown_dims[1] :> inferred_size(total_size, known_product)))
       ELSE Raise("EinopsError", "Cannot infer sizes for multiple unknown dimensions")

\* The loop over source_parsed.composition, from item i on.
RECURSIVE get_shape_dict_from(_, _, _, _, _)
get_shape_dict_from(shape, composition, i, sd, current_dim) ==
    IF i > Len(composition) THEN Ok(sd)
    ELSE LET item == composition[i] IN
         IF item.list
         THEN IF current_dim >= Len(shape)
              THEN Raise("IndexError", "tuple index out of range")
              ELSE LET total_size == shape[current_dim + 1] IN
                   IF Len(item.axes) = 1
                   THEN LET axis_name == item.axes[1] IN
                        IF axis_name \notin DOMAIN sd
                        THEN get_shape_dict_from(shape, composition, i + 1,
                                 sd @@ (axis_name :> total_size), current_dim + 1)
                        ELSE IF sd[axis_name] # total_size
                        THEN Raise("EinopsError", "Inconsistent size for dimension")
                        ELSE get_shape_dict_from(shape, composition, i + 1, sd,
                                                 current_dim + 1)
                   ELSE LET r == resolve_group(item, total_size, sd) IN
                        IF ~r.ok THEN r
                        ELSE get_shape_dict_from(shape, composition, i + 1, r.value,
                                                 current_dim + 1)
         ELSE LET ellipsis_dims == Len(shape) - current_dim - remaining_dims(composition) IN
              IF ellipsis_dims < 0
              THEN Raise("EinopsError", "Pattern has more dimensions than tensor")
              ELSE get_shape_dict_from(shape, composition, i + 1, sd,
                                       current_dim + ellipsis_dims)

_get_shape_dict(t, parsed, sizes) ==
    get_shape_dict_from(t.shape, parsed.composition, 1, sizes, 0)

-----------------------------------------------------------------------------
(* _compute_output_shape, src/funcs.py *)

NoPlan == [intermediate_shape |-> <<>>, final_shape |-> <<>>, permutation |-> <<>>]

PlanError(exc, msg) == [ok |-> FALSE, exc |-> exc, msg |-> msg, value |-> NoPlan]

\* tensor.shape[start:end] for start >= 0
shape_slice(shape, start, end) ==
    LET stop == IF end < 0 THEN (IF end + Len(shape) < 0 THEN 0 ELSE end + Len(shape))
                ELSE IF end > Len(shape) THEN Len(shape) ELSE end
    IN SubSeq(shape, start + 1, stop)

\* list(range(start, end))
range(start, end) == [k \in 1..(end - start) |-> start + k - 1]

\* The source loop's ellipsis branch: ellipsis_start and ellipsis_end.
ellipsis_range(shape, composition, current_dim) ==
    [start |-> current_dim, end |-> Len(shape) - remaining_dims(composition)]

\* The axes of one source list, appended to intermediate_shape and source_positions.
RECURSIVE append_axes(_, _, _)
append_axes(axes, sd, st) ==
    IF axes = <<>> THEN st
    ELSE append_axes(Tail(axes), sd,
             [st EXCEPT !.intermediate_shape = Append(@, sd[Head(axes)]),
                        !.source_positions =
                            [n \in DOMAIN @ \cup {Head(axes)} |->
                                IF n = Head(axes) THEN st.current_dim ELSE @[n]],
                        !.current_dim = @ + 1])

\* "Handle source pattern": the loop over source_parsed.composition, from item i on.
RECURSIVE source_pass(_, _, _, _, _)
source_pass(shape, composition, i, sd, st) ==
    IF i > Len(composition) THEN st
    ELSE LET item == composition[i] IN
         IF item.list
         THEN source_pass(shape, composition, i + 1, sd, append_axes(item.axes, sd, st))
         ELSE LET r == ellipsis_range(shape, composition, st.current_dim) IN
              source_pass(shape, composition, i + 1, sd,
                  [st EXCEPT !.ellipsis_bound = TRUE,
                             !.ellipsis_dims = range(r.start, r.end),
                             !.intermediate_shape = @ \o shape_slice(shape, r.start, r.end),
                             !.current_dim = r.end])

\* "Build output shape and permutation": the loop over target_parsed.composition.
RECURSIVE target_pass(_, _, _, _, _, _)
target_pass(shape, composition, i, sd, src, out) ==
    IF i > Len(composition) THEN Ok(out)
    ELSE LET item == composition[i] IN
         IF item.list
         THEN IF Len(item.axes) = 1
              THEN IF item.axes[1] \notin DOMAIN sd
                   THEN PlanError("EinopsError", "Unknown dimension")
                   ELSE IF item.axes[1] \notin DOMAIN src.source_positions
                   THEN PlanError("KeyError", "source_positions")
                   ELSE target_pass(shape, composition, i + 1, sd, src,
                            [out EXCEPT !.final_shape = Append(@, sd[item.axes[1]]),
                                        !.permutation =
                                            Append(@, src.source_positions[item.axes[1]])])
              ELSE IF \E k \in 1..Len(item.axes) : item.axes[k] \notin DOMAIN sd
                   THEN PlanError("KeyError", "shape_dict")
                   ELSE IF \E k \in 1..Len(item.axes) :
                               item.axes[k] \notin DOMAIN src.source_positions
                   THEN PlanError("KeyError", "source_positions")
                   ELSE target_pass(shape, composition, i + 1, sd, src,
                            [out EXCEPT
                                !.final_shape =
                                    Append(@, prod([k \in 1..Len(item.axes) |->
                                                       sd[item.axes[k]]])),
                                !.permutation =
                                    @ \o [k \in 1..Len(item.axes) |->
                                             src.source_positions[item.axes[k]]]])
         ELSE IF ~src.ellipsis_bound
              THEN PlanError("UnboundLocalError", "ellipsis_dims")
              ELSE IF \E k \in 1..Len(src.ellipsis_dims) : src.ellipsis_dims[k] >= Len(shape)
              THEN PlanError("IndexError", "tuple index out of range")
              ELSE target_pass(shape, composition, i + 1, sd, src,
                       [out EXCEPT
                           !.final_shape =
                               @ \o [k \in 1..Len(src.ellipsis_dims) |->
                                        shape[src.ellipsis_dims[k] + 1]],
                           !.permutation = @ \o src.ellipsis_dims])

_compute_output_shape(t, target, source, sd) ==
    IF \E i \in 1..Len(source.composition) :
           \E k \in 1..Len(source.composition[i].axes) :
               source.composition[i].axes[k] \notin DOMAIN sd
    THEN PlanError("KeyError", "shape_dict")
    ELSE LET src == source_pass(t.shape, source.composition, 1, sd,
                        [intermediate_shape |-> <<>>, source_positions |-> EmptyDict,
                         current_dim |-> 0, ellipsis_bound |-> FALSE,
                         ellipsis_dims |-> <<>>])
             r == target_pass(t.shape, target.composition, 1, sd, src,
                      [intermediate_shape |-> src.intermediate_shape,
                       final_shape |-> <<>>, permutation |-> <<>>])
         IN IF ~r.ok THEN r
            ELSE IF prod(r.value.intermediate_shape) # prod(r.value.final_shape)
            THEN PlanError("EinopsError", "Cannot reshape array")
            ELSE r

-----------------------------------------------------------------------------
(* rearrange, src/funcs.py: one action per statement group of the function *)

Running == [kind |-> "running", exc |-> "", msg |-> "", value |-> NoArray]

Returned(arr) == [kind |-> "returned", exc |-> "", msg |-> "", value |-> arr]

Raised(exc, msg) == [kind |-> "raised", exc |-> exc, msg |-> msg, value |-> NoArray]

NotParsed == ParseError("")

\* A call rearrange(t, p, **ns) that has just been entered.
Call(t, p, ns) ==
    /\ tensor = t
    /\ pattern = p
    /\ named_sizes = ns
    /\ pc = "split"
    /\ halves = <<>>
    /\ source_parsed = NotParsed
    /\ target_parsed = NotParsed
    /\ shape_dict = EmptyDict
    /\ plan = NoPlan
    /\ outcome = Running
    /\ original = t

\* if '->' not in pattern: raise ...; source, target = pattern.split('->')
Split ==
    /\ pc = "split" /\ outcome.kind = "running"
    /\ IF ~Contains(pattern, ARROW)
       THEN /\ outcome' = Raised("EinopsError", "Pattern must contain '->'")
            /\ UNCHANGED <<pc, halves>>
       ELSE IF Len(str_split(pattern, ARROW)) # 2
       THEN /\ outcome' = Raised("ValueError", "too many values to unpack")
            /\ UNCHANGED <<pc, halves>>
       ELSE /\ halves' = str_split(pattern, ARROW)
            /\ pc' = "parse_source"
            /\ UNCHANGED outcome
    /\ UNCHANGED <<tensor, pattern, named_sizes, source_parsed, target_parsed,
                   shape_dict, plan, original>>

\* source_parsed = ParsedExpression(source.strip())
ParseSource ==
    /\ pc = "parse_source" /\ outcome.kind = "running"
    /\ LET parsed == ParsedExpression(str_strip(halves[1])) IN
       IF ~parsed.ok
       THEN /\ outcome' = Raised("EinopsError", parsed.msg)
            /\ UNCHANGED <<pc, source_parsed>>
       ELSE /\ source_parsed' = parsed
            /\ pc' = "parse_target"
            /\ UNCHANGED outcome
    /\ UNCHANGED <<tensor, pattern, named_sizes, halves, target_parsed, shape_dict,
                   plan, original>>

\* target_parsed = ParsedExpression(target.strip())
ParseTarget ==
    /\ pc = "parse_target" /\ outcome.kind = "running"
    /\ LET parsed == ParsedExpression(str_strip(halves[2])) IN
       IF ~parsed.ok
       THEN /\ outcome' = Raised("EinopsError", parsed.msg)
            /\ UNCHANGED <<pc, target_parsed>>
       ELSE /\ target_parsed' = parsed
            /\ pc' = "dim_count"
            /\ UNCHANGED outcome
    /\ UNCHANGED <<tensor, pattern, named_sizes, halves, source_parsed, shape_dict,
                   plan, original>>

\* source_dims as compared with len(tensor.shape)
source_dims(parsed, rank) ==
    IF parsed.has_ellipsis
    THEN parsed.actual_dim_count + (rank - parsed.actual_dim_count)
    ELSE parsed.actual_dim_count

\* dim_count_message with the comparison the wrong way round.
dim_count_message_swapped(dims, rank) ==
    IF dims > rank THEN "Pattern requires fewer dimensions"
    ELSE "Pattern requires more dimensions"

\* The message of the error raised when dims # rank.
dim_count_message(dims, rank) ==
    IF dims < rank THEN "Pattern requires fewer dimensions"
    ELSE "Pattern requires more dimensions"

\* "Validate dimension counts match tensor shape"
CheckDimCount ==
    /\ pc = "dim_count" /\ outcome.kind = "running"
    /\ LET dims == source_dims(source_parsed, Len(tensor.shape)) IN
       IF dims # Len(tensor.shape)
       THEN /\ outcome' = Raised("EinopsError", dim_count_message(dims, Len(tensor.shape)))
            /\ UNCHANGED pc
       ELSE /\ pc' = "sizes"
            /\ UNCHANGED outcome
    /\ UNCHANGED <<tensor, pattern, named_sizes, halves, source_parsed, target_parsed,
                   shape_dict, plan, original>>

\* "Get dimension sizes": the try block around _get_shape_dict
GetShapeDict ==
    /\ pc = "sizes" /\ outcome.kind = "running"
    /\ LET r == _get_shape_dict(tensor, source_parsed, named_sizes) IN
       IF r.ok
       THEN /\ shape_dict' = r.value
            /\ pc' = "identifiers"
            /\ UNCHANGED outcome
       ELSE /\ outcome' = IF r.exc = "ValueError"
                          THEN Raised("EinopsError", "Cannot infer sizes")
                          ELSE Raised(r.exc, r.msg)
            /\ UNCHANGED <<pc, shape_dict>>
    /\ UNCHANGED <<tensor, pattern, named_sizes, halves, source_parsed, target_parsed,
                   plan, original>>

\* unknown_dims against the names that have a size instead of the source's names.
unknown_dims_by_size(target, source, sd) == (target.identifiers \ {DOTS}) \ DOMAIN sd

\* unknown_dims = target_identifiers - source_identifiers
unknown_dims(target, source, sd) ==
    (target.identifiers \ {DOTS}) \ (source.identifiers \ {DOTS})

CheckIdentifiers ==
    /\ pc = "identifiers" /\ outcome.kind = "running"
    /\ IF unknown_dims(target_parsed, source_parsed, shape_dict) # {}
       THEN /\ outcome' = Raised("EinopsError", "Unknown dimension(s)")
            /\ UNCHANGED pc
       ELSE /\ pc' = "plan"
            /\ UNCHANGED outcome
    /\ UNCHANGED <<tensor, pattern, named_sizes, halves, source_parsed, target_parsed,
                   shape_dict, plan, original>>

\* "Compute shapes and permutation": the try block around _compute_output_shape
ComputeOutputShape ==
    /\ pc = "plan" /\ outcome.kind = "running"
    /\ LET r == _compute_output_shape(tensor, target_parsed, source_parsed, shape_dict) IN
       IF r.ok
       THEN /\ plan' = r.value
            /\ pc' = "perform"
            /\ UNCHANGED outcome
       ELSE /\ outcome' = IF r.exc = "KeyError"
                          THEN Raised("EinopsError", "Unknown dimension")
                          ELSE Raised(r.exc, r.msg)
            /\ UNCHANGED <<pc, plan>>
    /\ UNCHANGED <<tensor, pattern, named_sizes, halves, source_parsed, target_parsed,
                   shape_dict, original>>

\* perform without the transpose: the array is only reshaped.
perform_untransposed(t, p) ==
    IF reshape_ok(t, p.final_shape) THEN Ok(reshape(t, p.final_shape))
    ELSE [ok |-> FALSE, exc |-> "ValueError", msg |-> "reshape", value |-> NoArray]

\* The try block of "Perform the rearrangement": the array, or the ValueError of a primitive.
perform(t, p) ==
    IF p.permutation = range(0, Len(p.permutation))
    THEN IF reshape_ok(t, p.final_shape) THEN Ok(reshape(t, p.final_shape))
         ELSE [ok |-> FALSE, exc |-> "ValueError", msg |-> "reshape", value |-> NoArray]
    ELSE IF ~reshape_ok(t, p.intermediate_shape)
    THEN [ok |-> FALSE, exc |-> "ValueError", msg |-> "reshape", value |-> NoArray]
    ELSE IF ~transpose_ok(reshape(t, p.intermediate_shape), p.permutation)
    THEN [ok |-> FALSE, exc |-> "ValueError", msg |-> "transpose", value |-> NoArray]
    ELSE LET moved == transpose(reshape(t, p.intermediate_shape), p.permutation) IN
         IF reshape_ok(moved, p.final_shape) THEN Ok(reshape(moved, p.final_shape))
         ELSE [ok |-> FALSE, exc |-> "ValueError", msg |-> "reshape", value |-> NoArray]

Perform ==
    /\ pc = "perform" /\ outcome.kind = "running"
    /\ LET r == perform(tensor, plan) IN
       outcome' = IF r.ok THEN Returned(r.value)
                  ELSE IF r.exc = "ValueError" THEN Raised("EinopsError", "Shape Mismatch")
                  ELSE Raised(r.exc, r.msg)
    /\ UNCHANGED <<tensor, pattern, named_sizes, pc, halves, source_parsed, target_parsed,
                   shape_dict, plan, original>>

Next ==
    \/ Split
    \/ ParseSource
    \/ ParseTarget
    \/ CheckDimCount
    \/ GetShapeDict
    \/ CheckIdentifiers
    \/ ComputeOutputShape
    \/ Perform

-----------------------------------------------------------------------------
(* The arguments of the calls that are checked *)

MaxSize == 2

MaxItems == 2

MaxExtent == 3

Join(items) ==
    Cat([i \in 1..Len(items) |-> IF i = 1 THEN items[i] ELSE <<" ">> \o items[i]])

Paren(names) == <<"(">> \o Join(names) \o <<")">>

Arrow(source, target) == source \o <<" ">> \o ARROW \o <<" ">> \o target

Sides(items, n) == {Join(s) : s \in UNION {[1..k -> items] : k \in 1..n}}

Shapes(ranks, sizes) == UNION {[1..r -> sizes] : r \in ranks}

A == <<"a">>

B == <<"b">>

C == <<"c">>

AxisNames == <<A, B, C>>

SizesOf(names, values) == UNION {[D -> values] : D \in SUBSET names}

(* Calls with plain axes and an ellipsis on the source side, and a target that may
   name an axis the source does not have. *)
GeneralSources == Sides({A, B, DOTS}, MaxItems)

GeneralTargets == Sides({A, C, Paren(<<A, C>>)}, MaxItems)

Init ==
    \E shape \in Shapes(0..MaxItems, 1..MaxSize), source \in GeneralSources,
       target \in GeneralTargets, ns \in {EmptyDict, C :> 2} :
        Call(arange(shape), Arrow(source, target), ns)

Spec == Init /\ [][Next]_vars

(* Calls that permute and merge: the source is n plain axes, the target every order
   and every grouping of them. *)
Orders(n) == {p \in [1..n -> 1..n] : \A i, j \in 1..n : i # j => p[i] # p[j]}

\* The target text of an order, cut into groups after the places in cuts.
RECURSIVE Arrangement(_, _, _, _)
Arrangement(order, cuts, i, group) ==
    IF i > Len(order)
    THEN <<>>
    ELSE LET g == Append(group, AxisNames[order[i]]) IN
         IF i = Len(order) \/ i \in cuts
         THEN <<g>> \o Arrangement(order, cuts, i + 1, <<>>)
         ELSE Arrangement(order, cuts, i + 1, g)

Render(groups, parens) ==
    Join([i \in 1..Len(groups) |->
             IF Len(groups[i]) = 1 /\ ~parens THEN groups[i][1] ELSE Paren(groups[i])])

InitPermute ==
    \E n \in 1..Len(AxisNames) :
        \E shape \in [1..n -> 1..MaxExtent], order \in Orders(n),
           cuts \in SUBSET (1..(n - 1)), parens \in BOOLEAN :
            Call(arange(shape),
                 Arrow(Join(SubSeq(AxisNames, 1, n)),
                       Render(Arrangement(order, cuts, 1, <<>>), parens)),
                 EmptyDict)

SpecPermute == InitPermute /\ [][Next]_vars

(* A caller that groups a 2-D array and ungroups the result. *)
GroupPattern == Arrow(Join(<<A, B>>), Paren(<<A, B>>))

UngroupPattern == Arrow(Paren(<<A, B>>), Join(<<A, B>>))

InitRoundTrip ==
    \E shape \in [1..2 -> 1..MaxExtent] : Call(arange(shape), GroupPattern, EmptyDict)

\* rearrange(<the result>, '(a b) -> a b', a=t.shape[0])
Ungroup ==
    /\ outcome.kind = "returned"
    /\ pattern = GroupPattern
    /\ tensor' = outcome.value
    /\ pattern' = UngroupPattern
    /\ named_sizes' = (A :> original.shape[1])
    /\ pc' = "split"
    /\ halves' = <<>>
    /\ source_parsed' = NotParsed
    /\ target_parsed' = NotParsed
    /\ shape_dict' = EmptyDict
    /\ plan' = NoPlan
    /\ outcome' = Running
    /\ UNCHANGED original

NextRoundTrip == Next \/ Ungroup

SpecRoundTrip == InitRoundTrip /\ [][NextRoundTrip]_vars

(* Calls whose source has a parenthesised group to resolve. *)
ResolveSources ==
    {Paren(<<A, B>>), Join(<<Paren(<<A, B>>), C>>), Join(<<C, Paren(<<A, B>>)>>),
     Join(<<A, Paren(<<A, B>>)>>), Join(<<B, Paren(<<A, B>>)>>), Paren(<<A, B, C>>),
     Join(<<C, Paren(<<B, A, C>>)>>)}

InitResolve ==
    \E shape \in Shapes(1..2, 1..(2 * MaxSize)), source \in ResolveSources,
       target \in {Join(<<A, B>>), Join(<<A, B, C>>), Join(<<B, A>>)},
       ns \in SizesOf({A, B}, 1..MaxSize) :
        Call(arange(shape), Arrow(source, target), ns)

SpecResolve == InitResolve /\ [][Next]_vars

(* Calls with an ellipsis on both sides; the target ungroups the source. *)
EllipsisSources ==
    {s \in UNION {[1..k -> {A, Paren(<<A, B>>), C, DOTS}] : k \in 1..3} :
        /\ Cardinality({i \in DOMAIN s : s[i] = DOTS}) = 1
        /\ Cardinality({i \in DOMAIN s : s[i] \in {A, Paren(<<A, B>>)}}) <= 1
        /\ Cardinality({i \in DOMAIN s : s[i] = C}) <= 1}

Ungrouped(items) ==
    Join([i \in 1..Len(items) |->
             IF items[i] = Paren(<<A, B>>) THEN Join(<<A, B>>) ELSE items[i]])

InitEllipsis ==
    \E shape \in Shapes(1..3, 1..MaxSize), items \in EllipsisSources,
       ns \in {EmptyDict, A :> 2, A :> 1} :
        Call(arange(shape), Arrow(Join(items), Ungrouped(items)), ns)

SpecEllipsis == InitEllipsis /\ [][Next]_vars

(* Calls with malformed or unusual pattern text. *)
OddSides ==
    Sides({A, B, DOTS, ELLIPSIS_TOKEN, A \o DOTS, DOTS \o B, <<"(">>, <<")">>, <<"1">>,
           <<"@">>, <<".">>}, MaxItems)
    \cup {Join(<<A, B, DOTS>>), Join(<<DOTS, A, B>>)}

InitOdd ==
    \/ \E shape \in Shapes(0..1, 1..MaxSize), source \in OddSides, target \in OddSides :
           Call(arange(shape), Arrow(source, target), EmptyDict)
    \/ \E shape \in Shapes(0..1, 1..MaxSize), p \in {A, Arrow(Arrow(A, A), A), ARROW,
                                                     Arrow(A, <<>>), Arrow(<<>>, A)} :
           Call(arange(shape), p, EmptyDict)

SpecOdd == InitOdd /\ [][Next]_vars

-----------------------------------------------------------------------------
(* The claims *)

Range(f) == {f[i] : i \in DOMAIN f}

\* The axis names a composition mentions.
NamesOf(composition) == UNION {Range(composition[i].axes) : i \in DOMAIN composition}

\* The number of Group elements of a composition.
GroupCount(composition) == Cardinality({i \in DOMAIN composition : composition[i].list})

EllipsisCount(composition) == Cardinality({i \in DOMAIN composition : ~composition[i].list})

BothParsed == pc \in {"dim_count", "sizes", "identifiers", "plan", "perform"}

Resolved == pc \in {"identifiers", "plan", "perform"}

Planned == pc = "perform"

AxisPos(name) == CHOOSE k \in 1..Len(AxisNames) : AxisNames[k] = name

\* The index into a target group of the axis indices idx: row-major over the group's axes.
GroupIndex(axes, idx, shape) ==
    ravel([k \in 1..Len(axes) |-> idx[AxisPos(axes[k])]],
          [k \in 1..Len(axes) |-> shape[AxisPos(axes[k])]])

GroupSize(axes, shape) == prod([k \in 1..Len(axes) |-> shape[AxisPos(axes[k])]])

\* C1: a call whose source is n plain axes and whose target uses each of them once,
\* plain or grouped, never fails; the result's shape has, per target group, the
\* product of the group's axis sizes, and the element at the target index composed
\* of the axis indices is the element of the input at those axis indices.
C1_PermuteAndMerge ==
    /\ outcome.kind # "raised"
    /\ outcome.kind = "returned" =>
         LET n == Len(tensor.shape)
             groups == [i \in 1..Len(target_parsed.composition) |->
                           target_parsed.composition[i].axes]
             expected == [i \in 1..Len(groups) |-> GroupSize(groups[i], tensor.shape)]
         IN /\ outcome.value.shape = expected
            /\ \A idx \in [1..n -> 0..(MaxExtent - 1)] :
                   (\A k \in 1..n : idx[k] < tensor.shape[k]) =>
                       outcome.value.data[
                           ravel([i \in 1..Len(groups) |->
                                     GroupIndex(groups[i], idx, tensor.shape)],
                                 expected) + 1]
                       = tensor.data[ravel(idx, tensor.shape) + 1]

\* 'a b c -> c b a' of a (2,3,3) array returned, with result[2,1,0] == t[0,1,2].
C1_Witness ==
    /\ outcome.kind = "returned"
    /\ pattern = Arrow(Join(<<A, B, C>>), Join(<<C, B, A>>))
    /\ tensor.shape = <<2, 3, 3>>
    /\ outcome.value.shape = <<3, 3, 2>>
    /\ plan.permutation = <<2, 1, 0>>
    /\ outcome.value.data[ravel(<<2, 1, 0>>, <<3, 3, 2>>) + 1]
           = tensor.data[ravel(<<0, 1, 2>>, <<2, 3, 3>>) + 1]

\* C2: grouping a 2-D array with 'a b -> (a b)' and ungrouping the result with
\* '(a b) -> a b', a=t.shape[0], fails at no step and gives back the shape and
\* every element of the array.
C2_RoundTrip ==
    /\ outcome.kind # "raised"
    /\ (outcome.kind = "returned" /\ pattern = UngroupPattern) =>
           /\ outcome.value.shape = original.shape
           /\ outcome.value.data = original.data

C2_Witness ==
    /\ outcome.kind = "returned"
    /\ pattern = UngroupPattern
    /\ original.shape = <<2, 3>>
    /\ tensor.shape = <<6>>
    /\ outcome.value.shape = <<2, 3>>

\* The first multi-axis group of the source, and the sizes known when it is reached.
FirstGroup(composition) ==
    CHOOSE k \in 1..Len(composition) :
        /\ Len(composition[k].axes) > 1
        /\ \A j \in 1..(k - 1) : Len(composition[j].axes) = 1

HasGroup(composition) == \E k \in 1..Len(composition) : Len(composition[k].axes) > 1

KnownBefore(k) ==
    get_shape_dict_from(tensor.shape, SubSeq(source_parsed.composition, 1, k - 1), 1,
                        named_sizes, 0)

\* C3: when the resolver reaches a multi-axis source group matched against a
\* dimension of size S, with P the product of the group's known sizes: one unknown
\* axis and P dividing S binds that axis to S / P; one unknown axis and P not
\* dividing S makes the call raise EinopsError 'Cannot divide ...'; several unknown
\* axes make it raise EinopsError 'Cannot infer sizes for multiple unknown
\* dimensions'; in both failures no array is returned.
C3_GroupResolution ==
    ( /\ (pc = "sizes" /\ outcome.kind = "raised") \/ Resolved
      /\ HasGroup(source_parsed.composition)
      /\ KnownBefore(FirstGroup(source_parsed.composition)).ok ) =>
        LET k == FirstGroup(source_parsed.composition)
            axes == source_parsed.composition[k].axes
            known == KnownBefore(k).value
            S == tensor.shape[k]
            unknown == {i \in 1..Len(axes) : axes[i] \notin DOMAIN known}
            P == prod(SelectSeq([i \in 1..Len(axes) |->
                                    IF axes[i] \in DOMAIN known THEN known[axes[i]] ELSE 0],
                                LAMBDA v : v # 0))
        IN /\ (Cardinality(unknown) = 1 /\ S % P = 0) =>
                 /\ outcome.msg \notin {"Cannot divide dimension size",
                                        "Cannot infer sizes for multiple unknown dimensions"}
                 /\ Resolved => \A i \in unknown : shape_dict[axes[i]] = S \div P
           /\ (Cardinality(unknown) = 1 /\ S % P # 0) =>
                 /\ pc = "sizes"
                 /\ outcome = Raised("EinopsError", "Cannot divide dimension size")
           /\ Cardinality(unknown) > 1 =>
                 /\ pc = "sizes"
                 /\ outcome = Raised("EinopsError",
                                     "Cannot infer sizes for multiple unknown dimensions")

\* '(a b) c -> a b c', b=2 of a (4,2) array returned an array of shape (2,2,2).
C3_Witness ==
    /\ outcome.kind = "returned"
    /\ pattern = Arrow(Join(<<Paren(<<A, B>>), C>>), Join(<<A, B, C>>))
    /\ tensor.shape = <<4, 2>>
    /\ named_sizes = (B :> 2)
    /\ shape_dict[A] = 2
    /\ outcome.value.shape = <<2, 2, 2>>

\* The sizes a side stands for, one per axis and one per dimension of the ellipsis:
\* the ellipsis takes the rank - groups array dimensions at its place in the source.
EllipsisPlace(composition) == CHOOSE i \in 1..Len(composition) : ~composition[i].list

EllipsisSizes ==
    LET comp == source_parsed.composition
        first == EllipsisPlace(comp)
        count == Len(tensor.shape) - GroupCount(comp)
    IN SubSeq(tensor.shape, first, first + count - 1)

RECURSIVE AxisSizes(_)
AxisSizes(composition) ==
    IF composition = <<>> THEN <<>>
    ELSE (IF Head(composition).list
          THEN [k \in 1..Len(Head(composition).axes) |-> shape_dict[Head(composition).axes[k]]]
          ELSE EllipsisSizes)
         \o AxisSizes(Tail(composition))

RECURSIVE GroupedSizes(_)
GroupedSizes(composition) ==
    IF composition = <<>> THEN <<>>
    ELSE (IF Head(composition).list
          THEN <<prod([k \in 1..Len(Head(composition).axes) |->
                          shape_dict[Head(composition).axes[k]]])>>
          ELSE EllipsisSizes)
         \o GroupedSizes(Tail(composition))

\* C4: with an ellipsis on both sides, wherever the source ellipsis stands, the
\* planner's intermediate shape holds the actual sizes of the rank - groups array
\* dimensions at the ellipsis, between the sizes of the axes around it, and the
\* final shape holds them at the target ellipsis.
C4_EllipsisSizesKept ==
    ( /\ Planned
      /\ EllipsisCount(source_parsed.composition) = 1
      /\ EllipsisCount(target_parsed.composition) = 1 ) =>
        /\ plan.intermediate_shape = AxisSizes(source_parsed.composition)
        /\ plan.final_shape = GroupedSizes(target_parsed.composition)

\* C5: a call that fails fails with EinopsError.
C5_OnlyDomainErrors == outcome.kind = "raised" => outcome.exc = "EinopsError"

\* C6: once both halves are parsed and the source has matched the rank and resolved
\* to sizes, a target that names an axis the source does not have, plain or in a
\* group, with or without a size for it in named_sizes, makes the call raise
\* EinopsError 'Unknown dimension(s)': it goes no further and returns no array.
C6_UnknownAxis ==
    ( /\ Resolved
      /\ NamesOf(target_parsed.composition) \ NamesOf(source_parsed.composition) # {} ) =>
        /\ pc = "identifiers"
        /\ outcome \in {Running, Raised("EinopsError", "Unknown dimension(s)")}

\* 'c' is named inside a target group and has a size in named_sizes.
C6_Witness ==
    /\ outcome = Raised("EinopsError", "Unknown dimension(s)")
    /\ C \in DOMAIN named_sizes
    /\ \E i \in DOMAIN target_parsed.composition :
           target_parsed.composition[i].axes = <<A, C>>
    /\ A \in NamesOf(source_parsed.composition)

NoEllipsis(parsed) == ~parsed.has_ellipsis /\ EllipsisCount(parsed.composition) = 0

\* C7: once both halves are parsed, a source without ellipsis whose number of groups
\* differs from the rank makes the call raise EinopsError 'Pattern requires fewer
\* dimensions' (fewer groups than the rank) or 'Pattern requires more dimensions'
\* (more), before any size is resolved and whatever the target and named_sizes are.
C7_DimensionCount ==
    ( /\ BothParsed
      /\ NoEllipsis(source_parsed)
      /\ GroupCount(source_parsed.composition) # Len(tensor.shape) ) =>
        /\ pc = "dim_count"
        /\ shape_dict = EmptyDict
        /\ outcome \in
             {Running,
              Raised("EinopsError",
                     IF GroupCount(source_parsed.composition) < Len(tensor.shape)
                     THEN "Pattern requires fewer dimensions"
                     ELSE "Pattern requires more dimensions")}

\* 'a b -> (a c)' of a rank-1 array: more groups than dimensions, and an unknown axis.
C7_Witness ==
    /\ outcome = Raised("EinopsError", "Pattern requires more dimensions")
    /\ GroupCount(source_parsed.composition) = 2
    /\ Len(tensor.shape) = 1
    /\ C \in NamesOf(target_parsed.composition)

\* C8: whenever the planner has returned, the permutation is as long as the
\* intermediate shape and holds every position 0..len-1 exactly once.
C8_PermutationBijective ==
    Planned =>
        /\ Len(plan.permutation) = Len(plan.intermediate_shape)
        /\ \A q \in 0..(Len(plan.intermediate_shape) - 1) :
               Cardinality({i \in DOMAIN plan.permutation : plan.permutation[i] = q}) = 1

\* C9: actual_dim_count of a parsed half is the number of Group elements of its
\* composition; an ellipsis adds nothing to it.
C9_DimCountIsGroupCount ==
    /\ source_parsed.ok =>
           source_parsed.actual_dim_count = GroupCount(source_parsed.composition)
    /\ target_parsed.ok =>
           target_parsed.actual_dim_count = GroupCount(target_parsed.composition)

EllipsisConsistent(parsed) ==
    /\ EllipsisCount(parsed.composition) <= 1
    /\ parsed.has_ellipsis <=> EllipsisCount(parsed.composition) > 0

\* C10: a parsed half holds at most one Ellipsis element, and has_ellipsis is true
\* exactly when it holds one.
C10_EllipsisFlag ==
    /\ source_parsed.ok => EllipsisConsistent(source_parsed)
    /\ target_parsed.ok => EllipsisConsistent(target_parsed)

====
